---- MODULE Spec2Model ----
(***************************************************************************)
(* gusto/gusto.py: GustoAuth (the holder of the refresh token and the      *)
(* OAuth exchanges) and Gusto (the bearer-authenticated reads), driven by  *)
(* a set of callers against a token endpoint and an API whose answers are  *)
(* chosen by the environment.                                              *)
(***************************************************************************)
EXTENDS Integers, Sequences, FiniteSets, TLC

\* ------------------------------------------------------------- bounds
\* Token values 1..NumTokens; at most MaxCalls calls of Gusto methods; company
\* ids 1..NumCompanyIds in companies lists of at most MaxCompanies entries.
NumTokens == 2
MaxCalls == 3
NumCompanyIds == 2
MaxCompanies == 2

\* ---------------------------------------------------------- constants
\* Python's None, the default of GustoAuth.__init__'s refresh_token.
None == 0
CLIENT_ID == "CLIENT_ID"
SECRET == "SECRET"
CALLBACK_URL == "http://localhost:5000/callback"
KEY_AUTHCODE == "code"

Tokens == 1..NumTokens
Callers == {"A", "B"}
CompanyIds == 1..NumCompanyIds
Statuses == {200, 401}

VARIABLES
    refresh_token,  \* GustoAuth.refresh_token
    access_token,   \* Gusto.access_token
    pc,             \* per caller: where its current call stands
    op,             \* per caller: the method it called
    sent,           \* per caller: the HTTP requests the call has issued
    rcvd,           \* per caller: the HTTP responses the call has received
    result,         \* per caller: what the call returned or raised
    arg,            \* per caller: the argument of the call
    before,         \* per caller: get() as read just before the call
    stored,         \* history: the last write of refresh_token (the value, the
                    \* value it replaced, and what wrote it)
    issued,         \* history: the refresh token the token endpoint issued last
    me_requests,    \* GETs of /v1/me the API has seen
    calls           \* invocations of each Gusto method

vars == <<refresh_token, access_token, pc, op, sent, rcvd, result, arg, before,
          stored, issued, me_requests, calls>>

\* ------------------------------------------------------ Python values
Return(v) == [kind |-> "return", value |-> v]
Raise(e, a) == [kind |-> "raise", exc |-> e, args |-> a]
NoResult == [kind |-> "none"]

Returned(c) == pc[c] = "done" /\ result[c].kind = "return"
Raised(c) == pc[c] = "done" /\ result[c].kind = "raise"

\* d[k] = v on a dict
DictSet(d, k, v) == [x \in DOMAIN d \cup {k} |-> IF x = k THEN v ELSE d[x]]
EmptyDict == <<>>

\* ------------------------------------------------- the token endpoint
\* A JSON object answered by POST /oauth/token: any subset of the four keys.
OptField(k, vals) == {EmptyDict} \cup {k :> v : v \in vals}

TokenBodies ==
    {e @@ d @@ r @@ a :
        e \in OptField("error", {"invalid_grant"}),
        d \in OptField("error_description", {"The grant is invalid"}),
        r \in OptField("refresh_token", Tokens),
        a \in OptField("access_token", Tokens)}

\* The two answers the provider documents: {access_token, refresh_token} and
\* {error, error_description}.
DocumentedTokenResponses ==
    {[kind |-> "json", body |-> ("refresh_token" :> r) @@ ("access_token" :> a)] :
        r \in Tokens, a \in Tokens}
    \cup {[kind |-> "json",
           body |-> ("error" :> "invalid_grant")
                    @@ ("error_description" :> "The grant is invalid")]}

TokenResponses ==
    {[kind |-> "json", body |-> b] : b \in TokenBodies}
    \cup {[kind |-> "not_json", body |-> EmptyDict],
          [kind |-> "transport_error", body |-> EmptyDict]}

\* ---------------------------------------------------------- GustoAuth
\* GustoAuth.put (put_keep_held: a put that writes only over None)
put_keep_held(new_token) ==
    refresh_token' = IF refresh_token = None THEN new_token ELSE refresh_token

put(new_token) == refresh_token' = new_token

\* GustoAuth.get
get == refresh_token

\* GustoAuth.oauth, lines 51-62: the request body (oauth_data_both_keys: both
\* grant keys set whatever the mode)
oauth_data_both_keys(token, refresh) ==
    LET data == [client_id |-> CLIENT_ID, client_secret |-> SECRET,
                 redirect_uri |-> CALLBACK_URL]
        grant == DictSet(data, "grant_type",
                         IF refresh THEN "refresh_token" ELSE "authorization_code")
    IN DictSet(DictSet(grant, "refresh_token", token), KEY_AUTHCODE, token)

oauth_data(token, refresh) ==
    LET data == [client_id |-> CLIENT_ID, client_secret |-> SECRET,
                 redirect_uri |-> CALLBACK_URL]
    IN IF refresh
       THEN DictSet(DictSet(data, "grant_type", "refresh_token"),
                    "refresh_token", token)
       ELSE DictSet(DictSet(data, "grant_type", "authorization_code"),
                    KEY_AUTHCODE, token)

\* GustoAuth.oauth, lines 64-67: the POST
oauth_request(token, refresh) ==
    [method |-> "POST", url |-> "/oauth/token",
     json |-> oauth_data(token, refresh),
     headers |-> [Content_Type |-> "application/json"]]

\* GustoAuth.oauth, lines 64-78: what the call does with the response r.
\* store: whether put() is reached; token: what it is given; result: the
\* value returned or the exception raised.
NoStore(res) == [store |-> FALSE, token |-> None, result |-> res]

\* oauth_outcome_returns_refresh: line 76 reading "refresh_token"
oauth_outcome_returns_refresh(r) ==
    IF r.kind = "transport_error" THEN NoStore(Raise("ConnectionError", <<>>))
    ELSE IF r.kind = "not_json" THEN NoStore(Raise("JSONDecodeError", <<>>))
    ELSE IF "error" \in DOMAIN r.body
    THEN IF "error_description" \in DOMAIN r.body
         THEN NoStore(Raise("Exception",
                            <<r.body["error"], r.body["error_description"]>>))
         ELSE NoStore(Raise("KeyError", <<"error_description">>))
    ELSE IF "refresh_token" \notin DOMAIN r.body
    THEN NoStore(Raise("KeyError", <<"refresh_token">>))
    ELSE [store |-> TRUE, token |-> r.body["refresh_token"],
          result |-> IF "access_token" \in DOMAIN r.body
                     THEN Return(r.body["refresh_token"])
                     ELSE Raise("KeyError", <<"access_token">>)]

oauth_outcome(r) ==
    \* line 64: requests.post raises on a transport failure
    IF r.kind = "transport_error" THEN NoStore(Raise("ConnectionError", <<>>))
    \* line 69: response.json() raises on a body that is not JSON
    ELSE IF r.kind = "not_json" THEN NoStore(Raise("JSONDecodeError", <<>>))
    \* lines 69-71
    ELSE IF "error" \in DOMAIN r.body
    THEN IF "error_description" \in DOMAIN r.body
         THEN NoStore(Raise("Exception",
                            <<r.body["error"], r.body["error_description"]>>))
         ELSE NoStore(Raise("KeyError", <<"error_description">>))
    \* line 73
    ELSE IF "refresh_token" \notin DOMAIN r.body
    THEN NoStore(Raise("KeyError", <<"refresh_token">>))
    \* lines 74-78: put() comes before access_token is read
    ELSE [store |-> TRUE, token |-> r.body["refresh_token"],
          result |-> IF "access_token" \in DOMAIN r.body
                     THEN Return(r.body["access_token"])
                     ELSE Raise("KeyError", <<"access_token">>)]

\* GustoAuth.access_token, line 96: the token handed to oauth()
\* (access_token_arg_stale: the token an exchange replaced)
access_token_arg_stale == IF stored.by = "exchange" THEN stored.old ELSE get

access_token_arg == get

\* --------------------------------------------------------------- Gusto
ApiOps == {"me", "company_id", "get_contractors", "get_employees"}
ResourceOps == {"get_contractors", "get_employees"}

Url(path, company) == [path |-> path, company |-> company]

bearer_headers ==
    [Accept |-> "application/json",
     Authorization |-> [scheme |-> "Bearer", token |-> access_token]]

\* Gusto.me, lines 114-117: the GET
me_request ==
    [method |-> "GET", url |-> Url("/v1/me", None), headers |-> bearer_headers]

\* Gusto.get_contractors / Gusto.get_employees: the GET of the resource
resource_path(o) ==
    IF o = "get_contractors" THEN "/v1/companies/{company_id}/contractors"
    ELSE "/v1/companies/{company_id}/employees"

resource_request(o, id) ==
    [method |-> "GET", url |-> Url(resource_path(o), id),
     headers |-> bearer_headers]

\* The profiles /v1/me may answer: a companies list of 1..MaxCompanies entries,
\* and the bodies that lack a step of roles.payroll_admin.companies[0].id.
CompanyLists ==
    UNION {[1..n -> {[id |-> i] : i \in CompanyIds}] : n \in 1..MaxCompanies}

Profile(companies) ==
    [email |-> "user", roles |-> [payroll_admin |-> [companies |-> companies]]]

FullProfiles == {Profile(cs) : cs \in CompanyLists}

MalformedProfiles ==
    <<[error |-> "unauthorized"],
      [email |-> "user", roles |-> [employee |-> [companies |-> <<>>]]],
      [email |-> "user", roles |-> [payroll_admin |-> [name |-> "admin"]]],
      Profile(<<>>),
      Profile(<<[name |-> "company"]>>)>>

ProfileBodies ==
    FullProfiles \cup {MalformedProfiles[i] : i \in DOMAIN MalformedProfiles}

ResourceBodies == {<<>>, <<[id |-> 1, first_name |-> "a"]>>}

HttpResponses(bodies) ==
    {[kind |-> "json", status |-> s, body |-> b] : s \in Statuses, b \in bodies}
    \cup {[kind |-> "not_json", status |-> s, body |-> EmptyDict] : s \in Statuses}
    \cup {[kind |-> "transport_error", status |-> 0, body |-> EmptyDict]}

\* response.json() of requests.get(...): lines 114-118, 131-137, 144-151.
\* The status of the response is never read.
json_outcome(r) ==
    IF r.kind = "transport_error" THEN Raise("ConnectionError", <<>>)
    ELSE IF r.kind = "not_json" THEN Raise("JSONDecodeError", <<>>)
    ELSE Return(r.body)

\* Gusto.me
me(r) == json_outcome(r)

\* company_id_path_last: companies[-1] in place of companies[0]
company_id_path_last(profile) ==
    IF "roles" \notin DOMAIN profile THEN Raise("KeyError", <<"roles">>)
    ELSE IF "payroll_admin" \notin DOMAIN profile["roles"]
    THEN Raise("KeyError", <<"payroll_admin">>)
    ELSE IF "companies" \notin DOMAIN profile["roles"]["payroll_admin"]
    THEN Raise("KeyError", <<"companies">>)
    ELSE LET companies == profile["roles"]["payroll_admin"]["companies"]
         IN IF Len(companies) = 0
            THEN Raise("IndexError", <<"list index out of range">>)
            ELSE IF "id" \notin DOMAIN companies[Len(companies)]
            THEN Raise("KeyError", <<"id">>)
            ELSE Return(companies[Len(companies)]["id"])

\* Gusto.company_id, line 124: ["roles"]["payroll_admin"]["companies"][0]["id"]
company_id_path(profile) ==
    IF "roles" \notin DOMAIN profile THEN Raise("KeyError", <<"roles">>)
    ELSE IF "payroll_admin" \notin DOMAIN profile["roles"]
    THEN Raise("KeyError", <<"payroll_admin">>)
    ELSE IF "companies" \notin DOMAIN profile["roles"]["payroll_admin"]
    THEN Raise("KeyError", <<"companies">>)
    ELSE LET companies == profile["roles"]["payroll_admin"]["companies"]
         IN IF Len(companies) = 0
            THEN Raise("IndexError", <<"list index out of range">>)
            ELSE IF "id" \notin DOMAIN companies[1]
            THEN Raise("KeyError", <<"id">>)
            ELSE Return(companies[1]["id"])

company_id(r) ==
    IF me(r).kind = "raise" THEN me(r) ELSE company_id_path(me(r).value)

\* ------------------------------------------------------------ the calls
AuthCodes == Tokens
TotalCalls == calls["me"] + calls["company_id"]
              + calls["get_contractors"] + calls["get_employees"]

\* GustoAuth(refresh_token) with or without its argument, no Gusto built yet,
\* and every caller about to call.
Init ==
    /\ refresh_token \in {None} \cup Tokens
    /\ access_token = None
    /\ pc = [c \in Callers |-> "idle"]
    /\ op = [c \in Callers |-> "none"]
    /\ sent = [c \in Callers |-> <<>>]
    /\ rcvd = [c \in Callers |-> <<>>]
    /\ result = [c \in Callers |-> NoResult]
    /\ arg = [c \in Callers |-> None]
    /\ before = [c \in Callers |-> None]
    /\ stored = [value |-> refresh_token, old |-> None, by |-> "init",
                 caller |-> "none"]
    /\ issued = None
    /\ me_requests = 0
    /\ calls = [o \in ApiOps |-> 0]

\* A caller enters method o, its first request on the wire.
Enter(c, o, a, request) ==
    /\ pc[c] = "idle"
    /\ op' = [op EXCEPT ![c] = o]
    /\ arg' = [arg EXCEPT ![c] = a]
    /\ sent' = [sent EXCEPT ![c] = <<request>>]
    /\ rcvd' = [rcvd EXCEPT ![c] = <<>>]
    /\ result' = [result EXCEPT ![c] = NoResult]
    /\ before' = [before EXCEPT ![c] = get]

\* auth.put(new_token), called by the application
Put(c, new_token) ==
    /\ pc[c] = "idle"
    /\ put(new_token)
    /\ stored' = [value |-> new_token, old |-> refresh_token, by |-> "put",
                  caller |-> c]
    /\ UNCHANGED <<access_token, pc, op, sent, rcvd, result, arg, before, issued,
                   me_requests, calls>>

\* GustoAuth.authorize(token): oauth(token) up to its POST
Authorize(c, token) ==
    /\ Enter(c, "authorize", token, oauth_request(token, FALSE))
    /\ pc' = [pc EXCEPT ![c] = "token_wait"]
    /\ UNCHANGED <<refresh_token, access_token, stored, issued, me_requests, calls>>

\* GustoAuth.access_token(): oauth(self.get(), refresh=True) up to its POST
AccessToken(c) ==
    /\ Enter(c, "access_token", None, oauth_request(access_token_arg, TRUE))
    /\ pc' = [pc EXCEPT ![c] = "token_wait"]
    /\ UNCHANGED <<refresh_token, access_token, stored, issued, me_requests, calls>>

\* The token endpoint answers the POST of caller c.
TokenResponse(c, r) ==
    /\ pc[c] = "token_wait"
    /\ rcvd' = [rcvd EXCEPT ![c] = <<r>>]
    /\ issued' = IF r.kind = "json" /\ "refresh_token" \in DOMAIN r.body
                 THEN r.body["refresh_token"] ELSE issued
    /\ pc' = [pc EXCEPT ![c] = "token_resp"]
    /\ UNCHANGED <<refresh_token, access_token, op, sent, result, arg, before,
                   stored, me_requests, calls>>

\* GustoAuth.oauth, lines 69-78, on the response received
OAuthReturn(c) ==
    /\ pc[c] = "token_resp"
    /\ LET o == oauth_outcome(rcvd[c][1])
       IN /\ IF o.store
             THEN /\ put(o.token)
                  /\ stored' = [value |-> o.token, old |-> refresh_token,
                                by |-> IF o.result.kind = "return"
                                       THEN "exchange" ELSE "failed_exchange",
                                caller |-> c]
             ELSE UNCHANGED <<refresh_token, stored>>
          /\ result' = [result EXCEPT ![c] = o.result]
    /\ pc' = [pc EXCEPT ![c] = "done"]
    /\ UNCHANGED <<access_token, op, sent, rcvd, arg, before, issued,
                   me_requests, calls>>

\* Gusto(access_token), built by the application from a token it holds
NewGusto(c, token) ==
    /\ pc[c] = "idle"
    /\ access_token' = token
    /\ UNCHANGED <<refresh_token, pc, op, sent, rcvd, result, arg, before,
                   stored, issued, me_requests, calls>>

\* A Gusto method is entered: each starts with the GET of /v1/me.
EnterApi(c, o) ==
    /\ access_token # None
    /\ TotalCalls < MaxCalls
    /\ Enter(c, o, None, me_request)
    /\ pc' = [pc EXCEPT ![c] = "me_wait"]
    /\ me_requests' = me_requests + 1
    /\ calls' = [calls EXCEPT ![o] = @ + 1]
    /\ UNCHANGED <<refresh_token, access_token, stored, issued>>

Me(c) == EnterApi(c, "me")
CompanyId(c) == EnterApi(c, "company_id")
GetContractors(c) == EnterApi(c, "get_contractors")
GetEmployees(c) == EnterApi(c, "get_employees")

Done(c, res) ==
    /\ result' = [result EXCEPT ![c] = res]
    /\ pc' = [pc EXCEPT ![c] = "done"]

\* /v1/me answers caller c, and the method goes on: me() returns, company_id()
\* reads the path, a resource method formats its URL and sends its GET.
MeResponse(c, r) ==
    /\ pc[c] = "me_wait"
    /\ rcvd' = [rcvd EXCEPT ![c] = <<r>>]
    /\ IF op[c] = "me"
       THEN Done(c, me(r)) /\ UNCHANGED sent
       ELSE IF op[c] = "company_id" \/ company_id(r).kind = "raise"
       THEN Done(c, company_id(r)) /\ UNCHANGED sent
       ELSE /\ sent' = [sent EXCEPT
                        ![c] = Append(@, resource_request(op[c], company_id(r).value))]
            /\ pc' = [pc EXCEPT ![c] = "resource_wait"]
            /\ UNCHANGED result
    /\ UNCHANGED <<refresh_token, access_token, op, arg, before, stored, issued,
                   me_requests, calls>>

\* The resource endpoint answers, and get_contractors / get_employees returns
\* response.json().
ResourceResponse(c, r) ==
    /\ pc[c] = "resource_wait"
    /\ rcvd' = [rcvd EXCEPT ![c] = Append(@, r)]
    /\ Done(c, json_outcome(r))
    /\ UNCHANGED <<refresh_token, access_token, op, sent, arg, before, stored,
                   issued, me_requests, calls>>

\* The caller has its result (or its exception) and is free to call again.
Finish(c) ==
    /\ pc[c] = "done"
    /\ pc' = [pc EXCEPT ![c] = "idle"]
    /\ op' = [op EXCEPT ![c] = "none"]
    /\ sent' = [sent EXCEPT ![c] = <<>>]
    /\ rcvd' = [rcvd EXCEPT ![c] = <<>>]
    /\ result' = [result EXCEPT ![c] = NoResult]
    /\ arg' = [arg EXCEPT ![c] = None]
    /\ before' = [before EXCEPT ![c] = None]
    /\ UNCHANGED <<refresh_token, access_token, stored, issued, me_requests, calls>>

\* ------------------------------------------------------ specifications
\* Single-threaded use (the design's assumption): a call starts only when no
\* other call is in progress.
Serial(c) == \A d \in Callers \ {c} : pc[d] = "idle"

\* The GustoAuth object, used single-threaded.
Next ==
    \/ \E c \in Callers, t \in {None} \cup Tokens : Serial(c) /\ Put(c, t)
    \/ \E c \in Callers, t \in AuthCodes : Serial(c) /\ Authorize(c, t)
    \/ \E c \in Callers : Serial(c) /\ AccessToken(c)
    \/ \E c \in Callers, r \in TokenResponses : TokenResponse(c, r)
    \/ \E c \in Callers : OAuthReturn(c)
    \/ \E c \in Callers : Finish(c)

Spec == Init /\ [][Next]_vars

\* The Gusto object, used single-threaded.
ApiNext ==
    \/ \E c \in Callers, t \in Tokens : Serial(c) /\ NewGusto(c, t)
    \/ \E c \in Callers : Serial(c) /\ Me(c)
    \/ \E c \in Callers : Serial(c) /\ CompanyId(c)
    \/ \E c \in Callers : Serial(c) /\ GetContractors(c)
    \/ \E c \in Callers : Serial(c) /\ GetEmployees(c)
    \/ \E c \in Callers, r \in HttpResponses(ProfileBodies) : MeResponse(c, r)
    \/ \E c \in Callers, r \in HttpResponses(ResourceBodies) : ResourceResponse(c, r)
    \/ \E c \in Callers : Finish(c)

\* No GustoAuth takes part: Gusto is handed its token by the application.
ApiInit == Init /\ refresh_token = None

ApiSpec == ApiInit /\ [][ApiNext]_vars

\* The GustoAuth object under two concurrent callers of access_token(), no
\* lock anywhere, the provider answering as documented.
ConcNext ==
    \/ \E c \in Callers, t \in Tokens : Put(c, t)
    \/ \E c \in Callers : AccessToken(c)
    \/ \E c \in Callers, r \in DocumentedTokenResponses : TokenResponse(c, r)
    \/ \E c \in Callers : OAuthReturn(c)
    \/ \E c \in Callers : Finish(c)

ConcSpec == Init /\ [][ConcNext]_vars

\* ---------------------------------------------------------- properties
Exchanges == {"authorize", "access_token"}

\* The token-endpoint response of caller c's exchange, and its JSON body
TokenResp(c) == rcvd[c][1]
TokenBody(c) == rcvd[c][1].body
\* The body of the token-endpoint request of caller c's exchange
RequestBody(c) == sent[c][1].json

\* C1: after a successful authorize(code) or access_token(), whatever the
\* token held before, get() is the refresh_token field of that call's response.
C1_GetIsResponseRefreshToken ==
    \A c \in Callers :
        (Returned(c) /\ op[c] \in Exchanges)
            => get = TokenBody(c)["refresh_token"]

\* C1 witness: a successful access_token() that replaced a held token by another.
C1_TokenReplaced ==
    \E c \in Callers :
        /\ Returned(c) /\ op[c] = "access_token"
        /\ before[c] \in Tokens
        /\ TokenBody(c)["refresh_token"] # before[c]
        /\ get = TokenBody(c)["refresh_token"]

\* C2: a response with an `error` field makes the exchange raise the exception
\* that carries the error code and the error description, and leaves get() as
\* it was before the call.
C2_ErrorFieldRaisesOAuthError ==
    \A c \in Callers :
        (pc[c] = "done" /\ op[c] \in Exchanges /\ TokenResp(c).kind = "json"
         /\ "error" \in DOMAIN TokenBody(c))
            => /\ result[c].kind = "raise"
               /\ result[c].exc = "Exception"
               /\ Len(result[c].args) = 2
               /\ result[c].args[1] = TokenBody(c)["error"]
               /\ "error_description" \in DOMAIN TokenBody(c)
                    => result[c].args[2] = TokenBody(c)["error_description"]
               /\ get = before[c]

\* C3: every access_token() request carries, as refresh_token, the value most
\* recently stored (by put(), by an exchange, or at construction), so the call
\* after an exchange that stored r2 over r1 sends r2.
C3_RefreshRequestCarriesLastStored ==
    \A c \in Callers :
        (op[c] = "access_token" /\ pc[c] \in {"token_wait", "token_resp"})
            => /\ "refresh_token" \in DOMAIN RequestBody(c)
               /\ RequestBody(c)["refresh_token"] = stored.value

\* C3 witness: a successful exchange stored r2 over a different r1, and the
\* access_token() request now on the wire carries r2.
C3_SecondRefreshSendsNewToken ==
    \E c \in Callers :
        /\ op[c] = "access_token" /\ pc[c] = "token_wait"
        /\ stored.by = "exchange"
        /\ stored.old \in Tokens
        /\ stored.value # stored.old
        /\ RequestBody(c)["refresh_token"] = stored.value

\* C4: an exchange that raises, for whatever reason, leaves the held refresh
\* token as it was before the call.
C4_FailedExchangeKeepsToken ==
    \A c \in Callers :
        (Raised(c) /\ op[c] \in Exchanges) => get = before[c]

\* C5: a successful authorize(code) or access_token() returns the access_token
\* field of its response, and not the refresh_token field where the two differ.
C5_ReturnsAccessTokenField ==
    \A c \in Callers :
        (Returned(c) /\ op[c] \in Exchanges)
            => /\ result[c].value = TokenBody(c)["access_token"]
               /\ TokenBody(c)["access_token"] # TokenBody(c)["refresh_token"]
                    => result[c].value # TokenBody(c)["refresh_token"]

\* C5 witness: a successful exchange whose response holds two different tokens.
C5_ReturnedWithDistinctFields ==
    \E c \in Callers :
        /\ Returned(c) /\ op[c] \in Exchanges
        /\ TokenBody(c)["access_token"] # TokenBody(c)["refresh_token"]

\* C9: every token-endpoint request body holds client_id, client_secret and
\* redirect_uri and one grant: authorize(code) sends grant_type
\* authorization_code with `code` = the code and no refresh_token key;
\* access_token() sends grant_type refresh_token with `refresh_token` = the
\* held token and no `code` key.
C9_RequestBodyShape ==
    \A c \in Callers :
        (op[c] \in Exchanges /\ pc[c] # "idle")
            => LET d == RequestBody(c)
               IN /\ Len(sent[c]) = 1
                  /\ sent[c][1].method = "POST"
                  /\ sent[c][1].url = "/oauth/token"
                  /\ {"client_id", "client_secret", "redirect_uri", "grant_type"}
                        \subseteq DOMAIN d
                  /\ d["client_id"] = CLIENT_ID
                  /\ d["client_secret"] = SECRET
                  /\ d["redirect_uri"] = CALLBACK_URL
                  /\ IF op[c] = "authorize"
                     THEN /\ DOMAIN d = {"client_id", "client_secret",
                                         "redirect_uri", "grant_type", "code"}
                          /\ d["grant_type"] = "authorization_code"
                          /\ d["code"] = arg[c]
                     ELSE /\ DOMAIN d = {"client_id", "client_secret",
                                         "redirect_uri", "grant_type",
                                         "refresh_token"}
                          /\ d["grant_type"] = "refresh_token"
                          /\ d["refresh_token"] = before[c]

\* C9 witness: an access_token() request on the wire, carrying the token that
\* an earlier exchange stored.
C9_RefreshRequestSent ==
    \E c \in Callers :
        /\ op[c] = "access_token" /\ pc[c] = "token_wait"
        /\ before[c] \in Tokens
        /\ stored.by = "exchange"

\* The /v1/me response of caller c's call, and roles.payroll_admin.companies
\* of a profile that has the path
MeResp(c) == rcvd[c][1]
Companies(b) == b["roles"]["payroll_admin"]["companies"]
HasCompanyPath(b) ==
    /\ "roles" \in DOMAIN b
    /\ "payroll_admin" \in DOMAIN b["roles"]
    /\ "companies" \in DOMAIN b["roles"]["payroll_admin"]
    /\ Len(Companies(b)) >= 1
    /\ "id" \in DOMAIN Companies(b)[1]
Success(status) == status \in 200..299

\* C6 as stated: companyId() returns roles.payroll_admin.companies[0].id of its
\* /v1/me response, and raises MalformedProfileError when the path is absent.
C6_AbsentPathRaisesMalformedProfileError ==
    \A c \in Callers :
        (pc[c] = "done" /\ op[c] = "company_id" /\ MeResp(c).kind = "json")
            => IF HasCompanyPath(MeResp(c).body)
               THEN /\ result[c].kind = "return"
                    /\ result[c].value = Companies(MeResp(c).body)[1]["id"]
               ELSE /\ result[c].kind = "raise"
                    /\ result[c].exc = "MalformedProfileError"

\* C6 as amended: companyId() returns roles.payroll_admin.companies[0].id of its
\* /v1/me response; when the path is absent it raises the lookup's own error:
\* KeyError for a missing roles or payroll_admin key, IndexError for an empty
\* companies list.
C6_AbsentPathRaisesLookupError ==
    \A c \in Callers :
        (pc[c] = "done" /\ op[c] = "company_id" /\ MeResp(c).kind = "json")
            => LET b == MeResp(c).body
               IN IF HasCompanyPath(b)
                  THEN /\ result[c].kind = "return"
                       /\ result[c].value = Companies(b)[1]["id"]
                  ELSE /\ result[c].kind = "raise"
                       /\ result[c].exc \in {"KeyError", "IndexError"}
                       /\ "roles" \notin DOMAIN b
                            => result[c] = Raise("KeyError", <<"roles">>)
                       /\ ("roles" \in DOMAIN b
                           /\ "payroll_admin" \notin DOMAIN b["roles"])
                            => result[c] = Raise("KeyError", <<"payroll_admin">>)
                       /\ b = Profile(<<>>) => result[c].exc = "IndexError"

\* C6 witness: company_id() raised IndexError on a payroll admin of no company.
C6_EmptyCompaniesRaised ==
    \E c \in Callers :
        /\ Raised(c) /\ op[c] = "company_id"
        /\ MeResp(c).kind = "json"
        /\ MeResp(c).body = Profile(<<>>)
        /\ result[c].exc = "IndexError"

\* C7: every Gusto call issues exactly one GET of /v1/me, first; a resource
\* call whose /v1/me response yields a company id issues exactly one more GET,
\* of its resource endpoint for that id, and no other request; so the GETs of
\* /v1/me number the calls made, with nothing remembered between calls.
C7_OneMeRequestPerCall ==
    /\ me_requests = TotalCalls
    /\ \A c \in Callers :
        op[c] \in ApiOps
            => /\ Len(sent[c]) \in {1, 2}
               /\ sent[c][1].method = "GET"
               /\ sent[c][1].url = Url("/v1/me", None)
               /\ Len(sent[c]) = 2
                    => /\ op[c] \in ResourceOps
                       /\ Len(rcvd[c]) >= 1
                       /\ MeResp(c).kind = "json"
                       /\ HasCompanyPath(MeResp(c).body)
                       /\ sent[c][2].method = "GET"
                       /\ sent[c][2].url =
                            Url(resource_path(op[c]),
                                Companies(MeResp(c).body)[1]["id"])
               /\ (op[c] \in ResourceOps /\ Len(rcvd[c]) >= 1
                   /\ MeResp(c).kind = "json" /\ HasCompanyPath(MeResp(c).body))
                    => Len(sent[c]) = 2
               /\ (Returned(c) /\ op[c] \in ResourceOps)
                    => Len(sent[c]) = 2 /\ Len(rcvd[c]) = 2

\* C7 witness: after resource calls only, two of them, the second has
\* returned for the first company of a profile listing two, and /v1/me has
\* been fetched twice.
C7_TwoResourceCallsTwoMeRequests ==
    \E c \in Callers :
        /\ Returned(c) /\ op[c] \in ResourceOps
        /\ calls["me"] = 0 /\ calls["company_id"] = 0
        /\ calls["get_contractors"] = 1 /\ calls["get_employees"] = 1
        /\ me_requests = 2
        /\ Len(Companies(MeResp(c).body)) = 2
        /\ Companies(MeResp(c).body)[1] # Companies(MeResp(c).body)[2]

\* The errors the HTTP library raises (requests.exceptions.RequestException)
HttpErrors == {"HTTPError", "ConnectionError", "JSONDecodeError"}

\* C8: a Gusto call that received a response of non-success status fails with
\* an HTTP error; it never returns.
C8_NonSuccessStatusRaisesHttpError ==
    \A c \in Callers :
        (pc[c] = "done" /\ op[c] \in ApiOps
         /\ \E i \in DOMAIN rcvd[c] :
                rcvd[c][i].kind # "transport_error" /\ ~Success(rcvd[c][i].status))
            => /\ result[c].kind = "raise"
               /\ result[c].exc \in HttpErrors

\* C10: with two concurrent callers the held token is always the one stored
\* last, whichever response that was: a successful exchange overwrites the
\* held token with its own response's refresh_token even when the token it
\* sent is no longer the one held.
C10_LastStoreWins ==
    /\ refresh_token = stored.value
    /\ \A c \in Callers :
        (Returned(c) /\ op[c] = "access_token" /\ stored.caller = c
         /\ stored.by = "exchange")
            => refresh_token = TokenBody(c)["refresh_token"]

\* C10 witness: both callers' access_token() requests carried the same held
\* token, both returned, and the token held is not the one the provider
\* issued last.
C10_LostRotation ==
    /\ \A c \in Callers : Returned(c) /\ op[c] = "access_token"
    /\ \A c, d \in Callers :
        RequestBody(c)["refresh_token"] = RequestBody(d)["refresh_token"]
    /\ \E c \in Callers : RequestBody(c)["refresh_token"] \in Tokens
    /\ refresh_token # issued

====
